---- MODULE Spec2Model ----
(***************************************************************************)
(* State-machine model of sim_os: the physical memory allocator            *)
(* (memory.py), the virtual memory manager with its TLB                    *)
(* (virtual_memory.py), the CPU scheduler (scheduler.py), the process      *)
(* entity (process.py) and the orchestrator (os_sim.py).                   *)
(*                                                                         *)
(* Every method is a pure operator from the object's state (a record of    *)
(* its fields) and the arguments to the new state and the returned value;  *)
(* an action applies one public method to the variables.  A method that    *)
(* raises (KeyError / IndexError) returns exc = TRUE together with the     *)
(* fields as the statements executed before the raise left them.           *)
(***************************************************************************)
EXTENDS Integers, Sequences, FiniteSets, TLC

VARIABLES
    mm,               \* MemoryManager: the fields set in memory.py:2-6
    vm,               \* VirtualMemoryManager: the fields set in virtual_memory.py:5-17
    sched,            \* CPUScheduler: the fields set in scheduler.py:6-11
    procs,            \* every Process object constructed so far, by pid
    next_pid,         \* Process._next_pid
    process_archive,  \* OperatingSystem.process_archive (its keys)
    last,             \* the most recent call and what it returned
    alloc_log,        \* addresses returned by the successful allocate calls, in order
    use_order,        \* (pid, page) pairs accessed so far, least recently accessed first
    since_fault,      \* (pid, page) -> frame of its fault, until evicted or released
    tlb_log,          \* keys given to tlb_access since the last reset_tlb, and whether
                      \* the capacity has stayed the same since the TLB was last empty
    rr                \* the dispatch run in progress: the order the processes stood
                      \* in when it began, and the pids dispatched since

vars == <<mm, vm, sched, procs, next_pid, process_archive, last,
          alloc_log, use_order, since_fault, tlb_log, rr>>

----------------------------------------------------------------------------
(* Bounds of the model *)

\* total_memory of the modelled MemoryManager (memory.py:2 takes it as a parameter)
MemTotal == 16
\* total_frames of the modelled VirtualMemoryManager (virtual_memory.py:5)
FrameTotal == 2
\* page_size of the modelled VirtualMemoryManager (virtual_memory.py:5)
PageSize == 8
\* number of successful allocate calls explored in the allocator specification
MaxAllocs == 4

\* page faults explored in the paging specification
MaxFaults == 4

\* tlb_access calls explored between two reset_tlb calls
MaxTlbLog == 5

\* processes constructed in the system specification (IRQ processes included)
MaxPid == 2
\* dispatches explored in the system specification
MaxDispatch == 2

\* sizes requested from the allocator and the virtual memory manager
Sizes == {0, 5, 8, 9}
\* sizes requested at process creation: after 9 an IRQ process no longer fits
CreateSizes == {0, 9}
\* owner ids passed to the component-level calls
Pids == {1, 2}
\* priorities given at process creation: below and above the IRQ priority
Priorities == {5, 12}
\* CPU-burst profiles a new process may draw (process.py:48-50)
CpuProfiles == {<<2, 3>>, <<6, 2>>}
\* policy names passed to set_policy (the last one is passed at cli.py:982)
PolicyArgs == {"PRIORITY", "RR", "FIFO", "SJF", "PRIORITY_RR"}
\* page numbers passed to access_page (the largest is out of range for every size)
PageArgs == 0..2
\* keys passed to tlb_access: those of the default sequence of cli.py:428-434
TlbKeys == {<<1, 0>>, <<2, 1>>, <<3, 2>>, <<4, 0>>, <<5, 1>>}
\* capacities passed to set_tlb_capacity
TlbCaps == 0..3
\* device names given to trigger_irq: one of the registry, one that is not
DeviceArgs == {"teclado", "impresora"}

----------------------------------------------------------------------------
(* Generic helpers *)

\* Python's None where a pid, an address, a frame or a page is expected
None == -1

\* dict assignment d[k] = v
Put(d, k, v) == [x \in (DOMAIN d) \cup {k} |-> IF x = k THEN v ELSE d[x]]

\* del d[k] / d.pop(k, None)
Del(d, k) == [x \in (DOMAIN d) \ {k} |-> d[x]]

\* the empty dict
EmptyDict == [x \in {} |-> None]

\* list(range(n)): 0, 1, ..., n-1
Range0(n) == [i \in 1..n |-> i - 1]

\* the elements of a sequence
Elems(s) == {s[i] : i \in 1..Len(s)}

\* deque.remove(x) / list.remove(x): drops the first occurrence of x
RemoveFirst(s, x) ==
    IF x \notin Elems(s) THEN s
    ELSE LET i == CHOOSE j \in 1..Len(s) : s[j] = x /\ \A k \in 1..(j-1) : s[k] # x
         IN  SubSeq(s, 1, i - 1) \o SubSeq(s, i + 1, Len(s))

\* whether a sequence holds no element twice
NoDup(s) == \A i, j \in 1..Len(s) : i # j => s[i] # s[j]

RECURSIVE SumOver(_, _)
\* sum of f[x] over the finite set S
SumOver(f, S) ==
    IF S = {} THEN 0
    ELSE LET x == CHOOSE y \in S : TRUE IN f[x] + SumOver(f, S \ {x})

\* the uniform record kept in `last`
Call(op, ok, pid, page, frame, fault, victim, exc) ==
    [op |-> op, ok |-> ok, pid |-> pid, page |-> page, frame |-> frame,
     fault |-> fault, victim |-> victim, exc |-> exc]

NoCall == Call("init", TRUE, None, None, None, FALSE, <<>>, FALSE)

(* Python dicts keep insertion order; a dict whose order is read (a page    *)
(* table's mapping in release_space, the TLB) is a sequence of              *)
(* <<key, value>> pairs in insertion order.                                 *)

OKeys(d) == {d[i][1] : i \in 1..Len(d)}

OHas(d, k) == k \in OKeys(d)

OGet(d, k) == (CHOOSE i \in 1..Len(d) : d[i][1] = k) 

OVal(d, k) == d[OGet(d, k)][2]

\* d[k] = v: a new key goes last, a present key keeps its place
OPut(d, k, v) ==
    IF OHas(d, k) THEN [i \in 1..Len(d) |-> IF d[i][1] = k THEN <<k, v>> ELSE d[i]]
    ELSE Append(d, <<k, v>>)

\* del d[k]
ODel(d, k) ==
    LET i == OGet(d, k) IN SubSeq(d, 1, i - 1) \o SubSeq(d, i + 1, Len(d))

----------------------------------------------------------------------------
(* memory.py: MemoryManager *)

MemoryManager(total_memory) ==
    [total_memory     |-> total_memory,
     available_memory |-> total_memory,
     allocated_blocks |-> EmptyDict,
     next_address     |-> 0]

\* a plausible slip: a block that would end past total_memory is refused
allocate_within_total(m, size, pid) ==
    IF size > m.available_memory \/ m.next_address + size > m.total_memory
    THEN [mm |-> m, ok |-> FALSE, address |-> None]
    ELSE [mm |-> [m EXCEPT
                    !.allocated_blocks = Put(@, m.next_address, [size |-> size, pid |-> pid]),
                    !.available_memory = @ - size,
                    !.next_address = @ + size],
          ok |-> TRUE, address |-> m.next_address]

allocate(m, size, pid) ==
    IF size > m.available_memory
    THEN [mm |-> m, ok |-> FALSE, address |-> None]
    ELSE [mm |-> [m EXCEPT
                    !.allocated_blocks = Put(@, m.next_address, [size |-> size, pid |-> pid]),
                    !.available_memory = @ - size,
                    !.next_address = @ + size],
          ok |-> TRUE, address |-> m.next_address]

\* a plausible slip: the freed size is not given back
deallocate_no_restore(m, address) ==
    IF address \in DOMAIN m.allocated_blocks
    THEN [mm |-> [m EXCEPT !.allocated_blocks = Del(@, address)], ok |-> TRUE]
    ELSE [mm |-> m, ok |-> FALSE]

deallocate(m, address) ==
    IF address \in DOMAIN m.allocated_blocks
    THEN [mm |-> [m EXCEPT
                    !.allocated_blocks = Del(@, address),
                    !.available_memory = @ + m.allocated_blocks[address].size],
          ok |-> TRUE]
    ELSE [mm |-> m, ok |-> FALSE]

----------------------------------------------------------------------------
(* virtual_memory.py: VirtualMemoryManager *)

VirtualMemoryManager(total_frames, page_size) ==
    [page_size    |-> page_size,
     total_frames |-> total_frames,
     free_frames  |-> Range0(total_frames),
     frame_table  |-> EmptyDict,
     page_tables  |-> EmptyDict,
     lru_queue    |-> <<>>,
     page_faults  |-> 0,
     tlb_capacity |-> 4,
     tlb          |-> <<>>,
     tlb_hits     |-> 0,
     tlb_misses   |-> 0]

Max(a, b) == IF a >= b THEN a ELSE b

\* a plausible slip: one page too many when the size is a multiple of the page
PageCount_plus_one(v, size_kb) == Max(1, size_kb \div v.page_size + 1)

\* pages = max(1, (size_kb + page_size - 1) // page_size)
PageCount(v, size_kb) == Max(1, (size_kb + v.page_size - 1) \div v.page_size)

create_space(v, pid, size_kb) ==
    [vm |-> [v EXCEPT !.page_tables =
                Put(@, pid, [pages |-> PageCount(v, size_kb), mapping |-> <<>>, faults |-> 0])],
     pages |-> PageCount(v, size_kb)]

\* a plausible slip: the frame-table entries are dropped but the frames are
\* not handed back to the free list
release_space_leak(v, pid) ==
    IF pid \notin DOMAIN v.page_tables THEN v
    ELSE LET mapping == v.page_tables[pid].mapping
             frames  == {mapping[i][2] : i \in 1..Len(mapping)}
         IN  [v EXCEPT
                !.frame_table = [f \in (DOMAIN @) \ frames |-> @[f]],
                !.page_tables = Del(@, pid)]

release_space(v, pid) ==
    IF pid \notin DOMAIN v.page_tables THEN v
    ELSE LET mapping == v.page_tables[pid].mapping
             frames  == {mapping[i][2] : i \in 1..Len(mapping)}
         IN  [v EXCEPT
                !.frame_table = [f \in (DOMAIN @) \ frames |-> @[f]],
                !.free_frames = @ \o [i \in 1..Len(mapping) |-> mapping[i][2]],
                !.page_tables = Del(@, pid)]

touch_frame(v, frame) ==
    [v EXCEPT !.lru_queue = Append(RemoveFirst(@, frame), frame)]

\* the result of _get_free_frame: the fields, the frame, the evicted
\* (pid, page) if any, and whether the call raised
FrameResult(v, frame, victim, exc) ==
    [vm |-> v, frame |-> frame, victim |-> victim, exc |-> exc]

\* the eviction branch of _get_free_frame (virtual_memory.py:55-58)
evict_frame(v, pid, page_number) ==
    IF v.lru_queue = <<>> THEN FrameResult(v, None, <<>>, TRUE)   \* popleft: IndexError
    ELSE
    LET victim_frame == Head(v.lru_queue)
        v1 == [v EXCEPT !.lru_queue = Tail(@)]
    IN  IF victim_frame \notin DOMAIN v1.frame_table
        THEN FrameResult(v1, None, <<>>, TRUE)                    \* KeyError
        ELSE
        LET victim_pid  == v1.frame_table[victim_frame][1]
            victim_page == v1.frame_table[victim_frame][2]
        IN  IF \/ victim_pid \notin DOMAIN v1.page_tables
               \/ ~OHas(v1.page_tables[victim_pid].mapping, victim_page)
            THEN FrameResult(v1, None, <<>>, TRUE)                \* KeyError
            ELSE FrameResult(
                   [v1 EXCEPT
                      !.page_tables[victim_pid].mapping = ODel(@, victim_page),
                      !.frame_table = Del(@, victim_frame)],
                   victim_frame, <<victim_pid, victim_page>>, FALSE)

get_free_frame(v, pid, page_number) ==
    LET got == IF v.free_frames = <<>>
               THEN evict_frame(v, pid, page_number)
               ELSE FrameResult([v EXCEPT !.free_frames = Tail(@)],
                                Head(v.free_frames), <<>>, FALSE)
    IN  IF got.exc THEN got
        ELSE FrameResult(
               touch_frame([got.vm EXCEPT
                              !.frame_table = Put(@, got.frame, <<pid, page_number>>)],
                           got.frame),
               got.frame, got.victim, FALSE)

\* the result of access_page: the fields, the returned success flag, whether a
\* fault was counted, the frame, the evicted (pid, page) if any, and whether
\* the call raised
AccessResult(v, ok, fault, frame, victim, exc) ==
    [vm |-> v, ok |-> ok, fault |-> fault, frame |-> frame, victim |-> victim,
     exc |-> exc]

\* a plausible slip: a hit is counted as a fault too
access_page_count_hits(v, pid, page_number) ==
    IF pid \notin DOMAIN v.page_tables
    THEN AccessResult(v, FALSE, FALSE, None, <<>>, FALSE)
    ELSE IF page_number >= v.page_tables[pid].pages
    THEN AccessResult(v, FALSE, FALSE, None, <<>>, FALSE)
    ELSE
    LET v1 == [v EXCEPT !.page_tables[pid].faults = @ + 1,
                        !.page_faults = @ + 1]
    IN  IF OHas(v.page_tables[pid].mapping, page_number)
        THEN LET frame == OVal(v.page_tables[pid].mapping, page_number)
             IN  AccessResult(touch_frame(v1, frame), TRUE, FALSE, frame, <<>>, FALSE)
        ELSE
        LET got == get_free_frame(v1, pid, page_number)
        IN  IF got.exc THEN AccessResult(got.vm, FALSE, TRUE, None, <<>>, TRUE)
            ELSE AccessResult(
                   [got.vm EXCEPT !.page_tables[pid].mapping =
                                     OPut(@, page_number, got.frame)],
                   TRUE, TRUE, got.frame, got.victim, FALSE)

\* a plausible slip: the range test lets page_number = pages through
access_page_off_by_one(v, pid, page_number) ==
    IF pid \notin DOMAIN v.page_tables
    THEN AccessResult(v, FALSE, FALSE, None, <<>>, FALSE)
    ELSE IF page_number > v.page_tables[pid].pages
    THEN AccessResult(v, FALSE, FALSE, None, <<>>, FALSE)
    ELSE IF OHas(v.page_tables[pid].mapping, page_number)
    THEN LET frame == OVal(v.page_tables[pid].mapping, page_number)
         IN  AccessResult(touch_frame(v, frame), TRUE, FALSE, frame, <<>>, FALSE)
    ELSE
    LET v1  == [v EXCEPT !.page_tables[pid].faults = @ + 1,
                         !.page_faults = @ + 1]
        got == get_free_frame(v1, pid, page_number)
    IN  IF got.exc THEN AccessResult(got.vm, FALSE, TRUE, None, <<>>, TRUE)
        ELSE AccessResult(
               [got.vm EXCEPT !.page_tables[pid].mapping =
                                 OPut(@, page_number, got.frame)],
               TRUE, TRUE, got.frame, got.victim, FALSE)

access_page(v, pid, page_number) ==
    IF pid \notin DOMAIN v.page_tables
    THEN AccessResult(v, FALSE, FALSE, None, <<>>, FALSE)
    ELSE IF page_number >= v.page_tables[pid].pages
    THEN AccessResult(v, FALSE, FALSE, None, <<>>, FALSE)
    ELSE IF OHas(v.page_tables[pid].mapping, page_number)
    THEN LET frame == OVal(v.page_tables[pid].mapping, page_number)
         IN  AccessResult(touch_frame(v, frame), TRUE, FALSE, frame, <<>>, FALSE)
    ELSE
    LET v1  == [v EXCEPT !.page_tables[pid].faults = @ + 1,
                         !.page_faults = @ + 1]
        got == get_free_frame(v1, pid, page_number)
    IN  IF got.exc THEN AccessResult(got.vm, FALSE, TRUE, None, <<>>, TRUE)
        ELSE AccessResult(
               [got.vm EXCEPT !.page_tables[pid].mapping =
                                 OPut(@, page_number, got.frame)],
               TRUE, TRUE, got.frame, got.victim, FALSE)

\* a plausible slip: the capacity is not clamped to at least 1
set_tlb_capacity_unclamped(v, capacity) ==
    LET over == Max(0, Len(v.tlb) - capacity)
    IN  [v EXCEPT !.tlb_capacity = capacity,
                  !.tlb = SubSeq(@, over + 1, Len(@))]

\* the while loop pops the oldest entry until the TLB fits
set_tlb_capacity(v, capacity) ==
    LET cap  == Max(1, capacity)
        over == Max(0, Len(v.tlb) - cap)
    IN  [v EXCEPT !.tlb_capacity = cap,
                  !.tlb = SubSeq(@, over + 1, Len(@))]

reset_tlb(v) ==
    [v EXCEPT !.tlb = <<>>, !.tlb_hits = 0, !.tlb_misses = 0]

\* the result of tlb_access: the fields, the returned hit flag and the key
\* named as evicted in the message, if any
TlbResult(v, hit, victim) == [vm |-> v, hit |-> hit, victim |-> victim]

\* a plausible slip: a hit does not refresh the key (FIFO instead of LRU)
tlb_access_fifo(v, pid, page) ==
    LET key == <<pid, page>> IN
    IF OHas(v.tlb, key)
    THEN TlbResult([v EXCEPT !.tlb_hits = @ + 1], TRUE, <<>>)
    ELSE LET v1 == [v EXCEPT !.tlb_misses = @ + 1, !.tlb = Append(@, <<key, TRUE>>)]
         IN  IF Len(v1.tlb) > v1.tlb_capacity
             THEN TlbResult([v1 EXCEPT !.tlb = Tail(@)], FALSE, Head(v1.tlb)[1])
             ELSE TlbResult(v1, FALSE, <<>>)

\* a plausible slip: a hit is not counted
tlb_access_uncounted_hit(v, pid, page) ==
    LET key == <<pid, page>> IN
    IF OHas(v.tlb, key)
    THEN TlbResult([v EXCEPT !.tlb = Append(ODel(@, key), <<key, TRUE>>)],
                   TRUE, <<>>)
    ELSE LET v1 == [v EXCEPT !.tlb_misses = @ + 1, !.tlb = Append(@, <<key, TRUE>>)]
         IN  IF Len(v1.tlb) > v1.tlb_capacity
             THEN TlbResult([v1 EXCEPT !.tlb = Tail(@)], FALSE, Head(v1.tlb)[1])
             ELSE TlbResult(v1, FALSE, <<>>)

tlb_access(v, pid, page) ==
    LET key == <<pid, page>> IN
    IF OHas(v.tlb, key)
    THEN TlbResult([v EXCEPT !.tlb = Append(ODel(@, key), <<key, TRUE>>),
                             !.tlb_hits = @ + 1],
                   TRUE, <<>>)
    ELSE LET v1 == [v EXCEPT !.tlb_misses = @ + 1, !.tlb = Append(@, <<key, TRUE>>)]
         IN  IF Len(v1.tlb) > v1.tlb_capacity
             THEN TlbResult([v1 EXCEPT !.tlb = Tail(@)], FALSE, Head(v1.tlb)[1])
             ELSE TlbResult(v1, FALSE, <<>>)

----------------------------------------------------------------------------
(* process.py: Process.  The objects live in `procs`, keyed by pid: the     *)
(* scheduler's table and queue, the archive and the local variables of the  *)
(* orchestrator all refer to the same object.  A system state S is the      *)
(* record of mm, vm, sched, procs, next_pid and process_archive.            *)

\* Process.__init__: the fields the core reads; history holds the category
\* of each event logged for the process
Process(priority, memory_size, cpu_profile, io_profile) ==
    [priority       |-> priority,
     state          |-> "NEW",
     memory_size    |-> memory_size,
     memory_address |-> None,
     cpu_time       |-> 0,
     cpu_profile    |-> cpu_profile,
     io_profile     |-> io_profile,
     history        |-> <<>>,
     state_flow     |-> <<>>]

record_state(S, pid, new_state) ==
    [S EXCEPT !.procs[pid].state = new_state,
              !.procs[pid].state_flow = Append(@, new_state)]

\* os_sim.py log_event, as far as the process sees it: process.history.append
log_event(S, category, pid) ==
    IF pid = None THEN S
    ELSE [S EXCEPT !.procs[pid].history = Append(@, category)]

----------------------------------------------------------------------------
(* scheduler.py: CPUScheduler *)

CPUScheduler(quantum) ==
    [quantum         |-> quantum,
     ready_queue     |-> <<>>,
     running_process |-> None,
     processes       |-> {},
     policy          |-> "RR"]

RECURSIVE Sorted_unstable(_, _)
\* a plausible slip: a process goes before those of the same key
Sorted_unstable(queue, key) ==
    IF queue = <<>> THEN <<>>
    ELSE LET x    == queue[Len(queue)]
             rest == Sorted_unstable(SubSeq(queue, 1, Len(queue) - 1), key)
             n    == Cardinality({i \in 1..Len(rest) : key[rest[i]] < key[x]})
         IN  SubSeq(rest, 1, n) \o <<x>> \o SubSeq(rest, n + 1, Len(rest))

RECURSIVE Sorted(_, _)
\* sorted(queue, key=...): stable, ascending by key[pid]
Sorted(queue, key) ==
    IF queue = <<>> THEN <<>>
    ELSE LET x    == queue[Len(queue)]
             rest == Sorted(SubSeq(queue, 1, Len(queue) - 1), key)
             n    == Cardinality({i \in 1..Len(rest) : key[rest[i]] <= key[x]})
         IN  SubSeq(rest, 1, n) \o <<x>> \o SubSeq(rest, n + 1, Len(rest))

\* a plausible slip: a process without bursts gets the smallest key
next_burst_empty_first(proc) == IF proc.cpu_profile # <<>> THEN proc.cpu_profile[1] ELSE 0

\* next_burst of scheduler.py:27-28
next_burst(proc) == IF proc.cpu_profile # <<>> THEN proc.cpu_profile[1] ELSE 9999

sort_by_policy(S) ==
    LET queue == S.sched.ready_queue
        pids  == Elems(queue)
    IN  IF S.sched.policy = "PRIORITY"
        THEN [S EXCEPT !.sched.ready_queue =
                          Sorted(queue, [p \in pids |-> S.procs[p].priority])]
        ELSE IF S.sched.policy = "SJF"
        THEN [S EXCEPT !.sched.ready_queue =
                          Sorted(queue, [p \in pids |-> next_burst(S.procs[p])])]
        ELSE S

add_process(S, pid) ==
    LET S1 == [S EXCEPT !.sched.processes = @ \cup {pid}]
        S2 == record_state(S1, pid, "READY")
        S3 == [S2 EXCEPT !.sched.ready_queue = Append(@, pid)]
    IN  sort_by_policy(S3)

Policies == {"PRIORITY", "RR", "FIFO", "SJF"}

\* a plausible slip: the queue is left as it was until the next dispatch
set_policy_no_sort(S, policy) ==
    IF policy \in Policies
    THEN [S |-> [S EXCEPT !.sched.policy = policy], ok |-> TRUE]
    ELSE [S |-> S, ok |-> FALSE]

set_policy(S, policy) ==
    IF policy \in Policies
    THEN [S |-> sort_by_policy([S EXCEPT !.sched.policy = policy]), ok |-> TRUE]
    ELSE [S |-> S, ok |-> FALSE]

\* a plausible slip: the quantum is assigned to cpu_time, not added to it
schedule_next_dispatch_assign(S) ==
    IF S.sched.ready_queue # <<>>
    THEN LET pid == Head(S.sched.ready_queue)
             S1  == record_state([S EXCEPT !.sched.ready_queue = Tail(@),
                                           !.sched.running_process = pid],
                                 pid, "RUNNING")
         IN  [S |-> [S1 EXCEPT !.procs[pid].cpu_time = S.sched.quantum],
              pid |-> pid]
    ELSE [S |-> S, pid |-> None]

\* schedule_next, scheduler.py:44-49: the head of the queue takes the slot
schedule_next_dispatch(S) ==
    IF S.sched.ready_queue # <<>>
    THEN LET pid == Head(S.sched.ready_queue)
             S1  == record_state([S EXCEPT !.sched.ready_queue = Tail(@),
                                           !.sched.running_process = pid],
                                 pid, "RUNNING")
         IN  [S |-> [S1 EXCEPT !.procs[pid].cpu_time = @ + S.sched.quantum],
              pid |-> pid]
    ELSE [S |-> S, pid |-> None]

\* a plausible slip: the return to READY of the process that held the slot is
\* not recorded
schedule_next_requeue_silent(S) ==
    LET rp == S.sched.running_process
    IN  schedule_next_dispatch(
          IF rp # None /\ S.procs[rp].state = "RUNNING"
          THEN [S EXCEPT !.sched.ready_queue = Append(@, rp),
                         !.procs[rp].state = "READY"]
          ELSE S)

\* a plausible slip: under FIFO the process that held the slot goes to the head
\* of the queue and so runs until it leaves
schedule_next_requeue_fifo(S) ==
    LET rp == S.sched.running_process
    IN  schedule_next_dispatch(
          IF rp # None /\ S.procs[rp].state = "RUNNING"
          THEN [record_state(S, rp, "READY") EXCEPT
                  !.sched.ready_queue = IF S.sched.policy = "FIFO"
                                        THEN <<rp>> \o @ ELSE Append(@, rp)]
          ELSE S)

\* a plausible slip: the process that held the slot goes to the head of the queue
schedule_next_requeue_front(S) ==
    LET rp == S.sched.running_process
    IN  schedule_next_dispatch(
          IF rp # None /\ S.procs[rp].state = "RUNNING"
          THEN [record_state(S, rp, "READY") EXCEPT
                  !.sched.ready_queue = <<rp>> \o @]
          ELSE S)

\* schedule_next, scheduler.py:40-43: a process still RUNNING goes back to the
\* tail of the queue (the queue was sorted before)
schedule_next_requeue(S) ==
    LET rp == S.sched.running_process
    IN  schedule_next_dispatch(
          IF rp # None /\ S.procs[rp].state = "RUNNING"
          THEN [record_state(S, rp, "READY") EXCEPT
                  !.sched.ready_queue = Append(@, rp)]
          ELSE S)

\* the result of schedule_next: the state and the pid returned (None if none)
schedule_next(S) == schedule_next_requeue(sort_by_policy(S))

\* a plausible slip: the process stays in the ready queue
remove_process_keep_queued(S, pid) ==
    IF pid \in S.sched.processes
    THEN LET S1 == record_state(S, pid, "TERMINATED")
         IN  [S |-> [S1 EXCEPT
                       !.sched.running_process = IF @ = pid THEN None ELSE @,
                       !.sched.processes = @ \ {pid}],
              ok |-> TRUE]
    ELSE [S |-> S, ok |-> FALSE]

remove_process(S, pid) ==
    IF pid \in S.sched.processes
    THEN LET S1 == record_state(S, pid, "TERMINATED")
         IN  [S |-> [S1 EXCEPT
                       !.sched.ready_queue = RemoveFirst(@, pid),
                       !.sched.running_process = IF @ = pid THEN None ELSE @,
                       !.sched.processes = @ \ {pid}],
              ok |-> TRUE]
    ELSE [S |-> S, ok |-> FALSE]

----------------------------------------------------------------------------
(* os_sim.py: OperatingSystem *)

\* io.py: the keys of IOManager.devices
Devices == {"disco", "teclado", "red"}

\* priority and memory_size of the transient IRQ process (os_sim.py:99)
IrqPriority == 10
IrqMemory == 8
\* CPUScheduler(quantum=2) (os_sim.py:18)
Quantum == 2

\* a plausible slip: the admission test is skipped
admits_always(S, memory_size) == TRUE

\* the admission test of create_process (os_sim.py:28)
admits(S, memory_size) == ~(memory_size > S.mm.available_memory)

\* create_process after Process(...) was built, os_sim.py:34-44: S holds the
\* new object, a is the result of memory_manager.allocate
create_process_allocated(S, pid, memory_size, a) ==
    IF ~a.ok
    THEN [S |-> [S EXCEPT !.mm = a.mm, !.procs = Del(@, pid)], pid |-> None]
    ELSE
    LET S3 == [S EXCEPT !.mm = a.mm, !.procs[pid].memory_address = a.address]
        S4 == log_event([S3 EXCEPT !.vm = create_space(@, pid, memory_size).vm],
                        "MEMORIA", pid)
        S5 == add_process(S4, pid)
    IN  [S |-> log_event(log_event(S5, "PROCESO", pid), "MEMORIA", pid),
         pid |-> pid]

\* a plausible slip: Process._next_pid is not advanced
create_process_same_pid(S, priority, memory_size, cpu_profile, io_profile) ==
    IF ~admits(S, memory_size) THEN [S |-> S, pid |-> None]
    ELSE create_process_allocated(
           record_state([S EXCEPT !.procs = Put(@, S.next_pid,
                                                Process(priority, memory_size,
                                                        cpu_profile, io_profile))],
                        S.next_pid, "NEW"),
           S.next_pid, memory_size,
           allocate(S.mm, memory_size, S.next_pid))

\* the result of create_process: the state and the new pid (None on failure)
create_process(S, priority, memory_size, cpu_profile, io_profile) ==
    IF ~admits(S, memory_size) THEN [S |-> S, pid |-> None]
    ELSE create_process_allocated(
           record_state([S EXCEPT !.next_pid = @ + 1,
                                  !.procs = Put(@, S.next_pid,
                                                Process(priority, memory_size,
                                                        cpu_profile, io_profile))],
                        S.next_pid, "NEW"),
           S.next_pid, memory_size,
           allocate(S.mm, memory_size, S.next_pid))

\* find_process: the live table first, then the archive (None if in neither)
find_process(S, pid) ==
    IF pid \in S.sched.processes \/ pid \in S.process_archive THEN pid ELSE None

\* get_process_history: the events logged for the process, None if unknown
get_process_history(S, pid) ==
    IF find_process(S, pid) = None THEN None
    ELSE S.procs[find_process(S, pid)].history

\* a plausible slip: the process is looked up with find_process, which also
\* finds the archived ones
kill_process_archived_too(S, pid) ==
    IF find_process(S, pid) = None THEN [S |-> S, ok |-> FALSE]
    ELSE
    LET address == S.procs[pid].memory_address
        S1 == IF address # None
              THEN log_event([S EXCEPT !.mm = deallocate(@, address).mm,
                                       !.vm = release_space(@, pid)],
                             "MEMORIA", pid)
              ELSE S
        S2 == log_event(S1, "PROCESO", pid)
        S3 == [S2 EXCEPT !.process_archive = @ \cup {pid}]
    IN  [S |-> remove_process(S3, pid).S, ok |-> TRUE]

\* a plausible slip: the virtual space of the process is not released
kill_process_keep_space(S, pid) ==
    IF pid \notin S.sched.processes THEN [S |-> S, ok |-> FALSE]
    ELSE
    LET address == S.procs[pid].memory_address
        S1 == IF address # None
              THEN log_event([S EXCEPT !.mm = deallocate(@, address).mm],
                             "MEMORIA", pid)
              ELSE S
        S2 == log_event(S1, "PROCESO", pid)
        S3 == [S2 EXCEPT !.process_archive = @ \cup {pid}]
    IN  [S |-> remove_process(S3, pid).S, ok |-> TRUE]

kill_process(S, pid) ==
    IF pid \notin S.sched.processes THEN [S |-> S, ok |-> FALSE]
    ELSE
    LET address == S.procs[pid].memory_address
        S1 == IF address # None
              THEN log_event([S EXCEPT !.mm = deallocate(@, address).mm,
                                       !.vm = release_space(@, pid)],
                             "MEMORIA", pid)
              ELSE S
        S2 == log_event(S1, "PROCESO", pid)
        S3 == [S2 EXCEPT !.process_archive = @ \cup {pid}]
    IN  [S |-> remove_process(S3, pid).S, ok |-> TRUE]

\* the result of run_scheduler_cycle: the state, the pid returned (None if
\* none), whether the call raised, and whether `page` is a value that
\* random.randint(0, pages - 1) can return for the dispatched process
CycleResult(S, pid, exc, drawn) == [S |-> S, pid |-> pid, exc |-> exc, drawn |-> drawn]

\* a plausible slip: the running slot is not cleared at the end of the cycle
cycle_requeue_keep_slot(S, pid, io, drawn) ==
    LET S3 == IF S.procs[pid].io_profile # <<>> /\ io
              THEN record_state(
                     log_event(record_state(S, pid, "WAITING"), "E/S", pid),
                     pid, "READY")
              ELSE record_state(S, pid, "READY")
    IN  CycleResult([S3 EXCEPT !.sched.ready_queue = Append(@, pid)],
                    pid, FALSE, drawn)

\* run_scheduler_cycle, os_sim.py:81-92: the I/O detour and the return to the
\* ready queue
cycle_requeue(S, pid, io, drawn) ==
    LET S3 == IF S.procs[pid].io_profile # <<>> /\ io
              THEN record_state(
                     log_event(record_state(S, pid, "WAITING"), "E/S", pid),
                     pid, "READY")
              ELSE record_state(S, pid, "READY")
    IN  CycleResult([S3 EXCEPT !.sched.ready_queue = Append(@, pid),
                               !.sched.running_process = None],
                    pid, FALSE, drawn)

\* run_scheduler_cycle, os_sim.py:79-80: a is the result of access_page
cycle_accessed(S, pid, a, io, drawn) ==
    IF a.exc THEN CycleResult([S EXCEPT !.vm = a.vm], pid, TRUE, drawn)
    ELSE cycle_requeue(log_event([S EXCEPT !.vm = a.vm], "MEMORIA", pid),
                       pid, io, drawn)

\* run_scheduler_cycle, os_sim.py:76-78: the page table of the dispatched
\* process, if it has one
cycle_dispatched(S, pid, page, io) ==
    IF pid \in DOMAIN S.vm.page_tables
    THEN cycle_accessed(S, pid, access_page(S.vm, pid, page), io,
                        page < S.vm.page_tables[pid].pages)
    ELSE cycle_requeue(S, pid, io, page = 0)

\* run_scheduler_cycle, os_sim.py:72-75: n is the result of schedule_next
cycle_scheduled(n, page, io) ==
    IF n.pid = None THEN CycleResult(n.S, None, FALSE, page = 0)
    ELSE cycle_dispatched(log_event(n.S, "CPU", n.pid), n.pid, page, io)

\* page is the number drawn at os_sim.py:78, io whether random.random() > 0.5
run_scheduler_cycle(S, page, io) == cycle_scheduled(schedule_next(S), page, io)

\* the result of trigger_irq: the state, the returned success flag, the pid of
\* the IRQ process, the pid the service cycle dispatched, whether the call
\* raised, and whether `page` could be drawn
IrqResult(S, ok, irq, served, exc, drawn) ==
    [S |-> S, ok |-> ok, irq |-> irq, served |-> served, exc |-> exc, drawn |-> drawn]

\* trigger_irq, os_sim.py:111-115: S is the state after the finally clause
irq_resume(S, running, irq, cy) ==
    IF cy.exc THEN IrqResult(S, FALSE, irq, cy.pid, TRUE, cy.drawn)
    ELSE IF running = None THEN IrqResult(S, TRUE, irq, cy.pid, FALSE, cy.drawn)
    ELSE IrqResult(
           log_event([record_state(S, running, "READY") EXCEPT
                        !.sched.ready_queue = <<running>> \o @],
                     "CPU", running),
           TRUE, irq, cy.pid, FALSE, cy.drawn)

\* a plausible slip: the IRQ process is not killed after the service cycle
irq_served_no_kill(cy, running, irq) ==
    irq_resume(IF ~cy.exc /\ cy.pid # None
               THEN log_event(cy.S, "CPU", cy.pid)
               ELSE cy.S,
               running, irq, cy)

\* trigger_irq, os_sim.py:107-110: cy is the result of run_scheduler_cycle;
\* the finally clause kills the IRQ process whether or not the cycle raised
irq_served(cy, running, irq) ==
    irq_resume(kill_process(IF ~cy.exc /\ cy.pid # None
                            THEN log_event(cy.S, "CPU", cy.pid)
                            ELSE cy.S,
                            irq).S,
               running, irq, cy)

\* trigger_irq, os_sim.py:100-106: c is the result of create_process
irq_created(c, running, page, io) ==
    IF c.pid = None THEN IrqResult(c.S, FALSE, None, None, FALSE, page = 0)
    ELSE irq_served(
           run_scheduler_cycle(
             [c.S EXCEPT !.sched.ready_queue = <<c.pid>> \o RemoveFirst(@, c.pid)],
             page, io),
           running, c.pid)

\* device_name and level only appear in the messages logged (os_sim.py:97-115):
\* the device registry of io.py is never consulted
trigger_irq(S, device_name, cpu_profile, io_profile, page, io) ==
    LET running == S.sched.running_process
    IN  irq_created(
          create_process(
            IF running # None /\ S.procs[running].state = "RUNNING"
            THEN log_event(record_state(S, running, "WAITING"), "CPU", running)
            ELSE S,
            IrqPriority, IrqMemory, cpu_profile, io_profile),
          running, page, io)

----------------------------------------------------------------------------
(* Initial state: OperatingSystem.__init__ and the class attribute          *)
(* Process._next_pid                                                        *)

Init ==
    /\ mm = MemoryManager(MemTotal)
    /\ vm = VirtualMemoryManager(FrameTotal, PageSize)
    /\ sched = CPUScheduler(Quantum)
    /\ procs = EmptyDict
    /\ next_pid = 1
    /\ process_archive = {}
    /\ last = NoCall
    /\ alloc_log = <<>>
    /\ use_order = <<>>
    /\ since_fault = EmptyDict
    /\ tlb_log = [keys |-> <<>>, steady |-> TRUE]
    /\ rr = [base |-> <<>>, log |-> <<>>]

----------------------------------------------------------------------------
(* The allocator driven directly: any sequence of allocate / deallocate     *)

Allocate(size, pid) ==
    /\ Len(alloc_log) < MaxAllocs
    /\ \E r \in {allocate(mm, size, pid)} :
         /\ mm' = r.mm
         /\ alloc_log' = IF r.ok THEN Append(alloc_log, r.address) ELSE alloc_log
         /\ last' = Call("allocate", r.ok, pid, None, r.address, FALSE, <<>>, FALSE)
    /\ UNCHANGED <<vm, sched, procs, next_pid, process_archive, rr,
                   use_order, since_fault, tlb_log>>

Deallocate(address) ==
    /\ \E r \in {deallocate(mm, address)} :
         /\ mm' = r.mm
         /\ last' = Call("deallocate", r.ok, None, None, address, FALSE, <<>>, FALSE)
    /\ UNCHANGED <<vm, sched, procs, next_pid, process_archive, rr,
                   alloc_log, use_order, since_fault, tlb_log>>

\* addresses a caller may pass to deallocate: returned ones and one never returned
Addresses == Elems(alloc_log) \cup {mm.next_address + 1}

NextMem ==
    \/ \E size \in Sizes, pid \in Pids : Allocate(size, pid)
    \/ \E address \in Addresses : Deallocate(address)

SpecMem == Init /\ [][NextMem]_vars

----------------------------------------------------------------------------
(* The virtual memory manager driven directly: any sequence of              *)
(* create_space / access_page / release_space                               *)

\* the recency list after an access to key
Touched(order, key) == Append(RemoveFirst(order, key), key)

\* since_fault after an access_page call that returned r
FaultsAfter(sf, pid, page_number, r) ==
    LET kept == [k \in (DOMAIN sf) \ {r.victim} |-> sf[k]]
    IN  IF r.ok /\ r.fault THEN Put(kept, <<pid, page_number>>, r.frame) ELSE kept

CreateSpace(pid, size_kb) ==
    /\ vm' = create_space(vm, pid, size_kb).vm
    /\ last' = Call("create_space", TRUE, pid, None, None, FALSE, <<>>, FALSE)
    /\ UNCHANGED <<mm, sched, procs, next_pid, process_archive, rr,
                   alloc_log, use_order, since_fault, tlb_log>>

ReleaseSpace(pid) ==
    /\ vm' = release_space(vm, pid)
    /\ since_fault' = [k \in {x \in DOMAIN since_fault : x[1] # pid} |-> since_fault[k]]
    /\ last' = Call("release_space", TRUE, pid, None, None, FALSE, <<>>, FALSE)
    /\ UNCHANGED <<mm, sched, procs, next_pid, process_archive, rr,
                   alloc_log, use_order, tlb_log>>

AccessPage(pid, page_number) ==
    /\ vm.page_faults < MaxFaults
    /\ \E r \in {access_page(vm, pid, page_number)} :
         /\ vm' = r.vm
         /\ use_order' = IF r.ok THEN Touched(use_order, <<pid, page_number>>)
                         ELSE use_order
         /\ since_fault' = FaultsAfter(since_fault, pid, page_number, r)
         /\ last' = Call("access_page", r.ok, pid, page_number, r.frame, r.fault,
                         r.victim, r.exc)
    /\ UNCHANGED <<mm, sched, procs, next_pid, process_archive, rr, alloc_log, tlb_log>>

NextVM ==
    \/ \E pid \in Pids, size_kb \in Sizes : CreateSpace(pid, size_kb)
    \/ \E pid \in Pids : ReleaseSpace(pid)
    \/ \E pid \in Pids, page_number \in PageArgs : AccessPage(pid, page_number)

SpecVM == Init /\ [][NextVM]_vars

----------------------------------------------------------------------------
(* Claims on paging *)

\* the (pid, page) pairs mapped by some page table
Resident(v) ==
    UNION {{<<pid, page>> : page \in OKeys(v.page_tables[pid].mapping)} :
              pid \in DOMAIN v.page_tables}

\* the frame a resident pair is mapped to
FrameOf(v, key) == OVal(v.page_tables[key[1]].mapping, key[2])

\* C5: every page mapped in a page table maps to a frame whose frame-table
\* entry is exactly (that pid, that page); every frame-table entry (pid, page)
\* is mapped back by pid's page table; no two (pid, page) pairs share a frame;
\* no frame is both in the free list and in the frame table.
C5_FrameOwnership ==
    /\ \A key \in Resident(vm) :
          /\ FrameOf(vm, key) \in DOMAIN vm.frame_table
          /\ vm.frame_table[FrameOf(vm, key)] = key
    /\ \A f \in DOMAIN vm.frame_table :
          /\ vm.frame_table[f] \in Resident(vm)
          /\ FrameOf(vm, vm.frame_table[f]) = f
    /\ \A k1, k2 \in Resident(vm) : FrameOf(vm, k1) = FrameOf(vm, k2) => k1 = k2
    /\ Elems(vm.free_frames) \cap DOMAIN vm.frame_table = {}

\* C6: frames_used + frames_free = frames_total, where frames_free is the
\* length of the free list, which holds no frame twice, and frames_used is the
\* number of frames owned by a (pid, page) pair in the frame table.
C6_FramePoolConservation ==
    /\ Cardinality(DOMAIN vm.frame_table) + Len(vm.free_frames) = vm.total_frames
    /\ NoDup(vm.free_frames)

\* the case of C6: frames were taken, a space was released and a page evicted
C6_Witness ==
    /\ last.op = "access_page" /\ last.victim # <<>>
    /\ vm.free_frames = <<>>
    /\ Head(vm.lru_queue) # 0
    /\ Cardinality(DOMAIN vm.page_tables) = 2

\* C7: once access_page(pid, page) has returned a FAULT, the next
\* access_page(pid, page) is a HIT (no fault counted, same frame) provided the
\* page has not been evicted and the space has not been released in between.
C7_FaultThenHit ==
    [][\A pid \in Pids, page_number \in PageArgs :
          (AccessPage(pid, page_number) /\ <<pid, page_number>> \in DOMAIN since_fault)
          => /\ last'.ok /\ ~last'.fault
             /\ last'.frame = since_fault[<<pid, page_number>>]
             /\ vm'.page_faults = vm.page_faults]_vars

\* the per-process fault counters, 0 for a pid without a page table
FaultsOf(v, pid) == IF pid \in DOMAIN v.page_tables THEN v.page_tables[pid].faults ELSE 0

\* C8: an access_page call that faults increases the global page_faults
\* counter and the accessing process's fault counter by exactly 1; a call that
\* hits or fails (unknown pid, page out of range) changes neither counter.
C8_FaultAccounting ==
    [][\A pid \in Pids, page_number \in PageArgs :
          AccessPage(pid, page_number)
          => LET d == IF last'.fault THEN 1 ELSE 0 IN
             /\ vm'.page_faults = vm.page_faults + d
             /\ FaultsOf(vm', pid) = FaultsOf(vm, pid) + d
             /\ \A q \in Pids \ {pid} : FaultsOf(vm', q) = FaultsOf(vm, q)
             /\ last'.fault <=> /\ pid \in DOMAIN vm.page_tables
                                /\ page_number < vm.page_tables[pid].pages
                                /\ <<pid, page_number>> \notin Resident(vm)]_vars

\* the case of C8: a hit came after three counted faults, one of them the
\* hitting process's own
C8_Witness ==
    /\ last.op = "access_page" /\ last.ok /\ ~last.fault
    /\ vm.page_faults = 3
    /\ vm.page_tables[last.pid].faults = 1

\* the resident pair whose most recent access is the oldest
LruResident(v, order) ==
    order[CHOOSE i \in 1..Len(order) :
            /\ order[i] \in Resident(v)
            /\ \A j \in 1..(i - 1) : order[j] \notin Resident(v)]

\* C9: whenever a fault finds no free frame, the evicted page is the resident
\* page whose most recent access (fault or hit) is the oldest among all
\* resident pages of all processes; with k frames, all free, the (k+1)th of
\* k+1 distinct accesses evicts the first-accessed pair.
C9_LruEviction ==
    [][\A pid \in Pids, page_number \in PageArgs :
          (AccessPage(pid, page_number) /\ last'.fault /\ vm.free_frames = <<>>)
          => /\ ~last'.exc
             /\ last'.victim = LruResident(vm, use_order)]_vars

\* C31: a page fault takes the head of the free list whenever the free list
\* is not empty and evicts a resident page only when it is empty; on eviction
\* the victim's mapping is removed from its owner's page table, whichever
\* process owns it, so that the owner's next access to that page is a fault;
\* and the frame newly mapped is the most recently used.
C31_FrameAcquisition ==
    [][\A pid \in Pids, page_number \in PageArgs :
          (AccessPage(pid, page_number) /\ last'.fault)
          => /\ ~last'.exc
             /\ FrameOf(vm', <<pid, page_number>>) = last'.frame
             /\ vm'.lru_queue[Len(vm'.lru_queue)] = last'.frame
             /\ IF vm.free_frames # <<>>
                THEN /\ last'.frame = Head(vm.free_frames)
                     /\ last'.victim = <<>>
                     /\ Resident(vm') = Resident(vm) \cup {<<pid, page_number>>}
                ELSE /\ last'.victim \in Resident(vm)
                     /\ FrameOf(vm, last'.victim) = last'.frame
                     /\ Resident(vm') = (Resident(vm) \ {last'.victim})
                                           \cup {<<pid, page_number>>}
                     /\ access_page(vm', last'.victim[1], last'.victim[2]).fault]_vars

\* C35: after any sequence of access_page and release_space calls, the
\* usage-order queue holds exactly the frames owned by some (pid, page) pair,
\* each once, and no frame of the free list.
C35_LruQueueConsistency ==
    /\ Elems(vm.lru_queue) = DOMAIN vm.frame_table
    /\ NoDup(vm.lru_queue)
    /\ Elems(vm.lru_queue) \cap Elems(vm.free_frames) = {}

\* C15: access_page(pid, page_number) returns a failure when pid has no page
\* table and when page_number >= the page count of pid, and then leaves page
\* tables, frame table, free list, LRU order and fault counters unchanged.
C15_AccessPageRejects ==
    [][\A pid \in Pids, page_number \in PageArgs :
          (/\ AccessPage(pid, page_number)
           /\ \/ pid \notin DOMAIN vm.page_tables
              \/ page_number >= vm.page_tables[pid].pages)
          => /\ ~last'.ok /\ ~last'.exc
             /\ vm'.page_tables = vm.page_tables
             /\ vm'.frame_table = vm.frame_table
             /\ vm'.free_frames = vm.free_frames
             /\ vm'.lru_queue = vm.lru_queue
             /\ vm'.page_faults = vm.page_faults
             /\ vm' = vm]_vars

\* the case of C15: a page just past the end of a space with resident pages
\* was asked for
C15_Witness ==
    /\ last.op = "access_page" /\ ~last.ok
    /\ last.pid \in DOMAIN vm.page_tables
    /\ last.page = vm.page_tables[last.pid].pages
    /\ vm.page_tables[last.pid].mapping # <<>>
    /\ \E pid \in Pids : pid \notin DOMAIN vm.page_tables

----------------------------------------------------------------------------
(* The TLB driven directly: any sequence of tlb_access / set_tlb_capacity / *)
(* reset_tlb                                                                *)

TlbAccess(key) ==
    /\ Len(tlb_log.keys) < MaxTlbLog
    /\ \E r \in {tlb_access(vm, key[1], key[2])} :
         /\ vm' = r.vm
         /\ last' = Call("tlb_access", r.hit, key[1], key[2], None, FALSE, r.victim, FALSE)
    /\ tlb_log' = [tlb_log EXCEPT !.keys = Append(@, key)]
    /\ UNCHANGED <<mm, sched, procs, next_pid, process_archive, rr,
                   alloc_log, use_order, since_fault>>

SetTlbCapacity(capacity) ==
    /\ vm' = set_tlb_capacity(vm, capacity)
    /\ tlb_log' = [tlb_log EXCEPT !.steady = (vm.tlb = <<>>)]
    /\ last' = Call("set_tlb_capacity", TRUE, None, None, None, FALSE, <<>>, FALSE)
    /\ UNCHANGED <<mm, sched, procs, next_pid, process_archive, rr,
                   alloc_log, use_order, since_fault>>

ResetTlb ==
    /\ vm' = reset_tlb(vm)
    /\ tlb_log' = [keys |-> <<>>, steady |-> TRUE]
    /\ last' = Call("reset_tlb", TRUE, None, None, None, FALSE, <<>>, FALSE)
    /\ UNCHANGED <<mm, sched, procs, next_pid, process_archive, rr,
                   alloc_log, use_order, since_fault>>

NextTLB ==
    \/ \E key \in TlbKeys : TlbAccess(key)
    \/ \E capacity \in TlbCaps : SetTlbCapacity(capacity)
    \/ ResetTlb

SpecTLB == Init /\ [][NextTLB]_vars

----------------------------------------------------------------------------
(* The TLB next to the page tables: translations are looked up for pages
   that are resident, while spaces are created, accessed and released *)

\* tlb_access for a page that a page table maps, once in a run
TlbLookup(key) ==
    /\ tlb_log.keys = <<>>
    /\ key \in Resident(vm)
    /\ TlbAccess(key)

NextStale ==
    \/ \E pid \in Pids : CreateSpace(pid, 9)
    \/ \E pid \in Pids : ReleaseSpace(pid)
    \/ \E pid \in Pids, page_number \in PageArgs : AccessPage(pid, page_number)
    \/ \E pid \in Pids, page \in PageArgs : TlbLookup(<<pid, page>>)

SpecStale == Init /\ [][NextStale]_vars

\* the keys held by the TLB
TlbEntries(v) == OKeys(v.tlb)

\* C36: after release_space(pid) the TLB holds no entry keyed by pid, and
\* after a page is evicted from the frame pool the TLB holds no entry for that
\* (pid, page): every TLB entry is for a page that is resident.
C36_NoStaleTranslations ==
    [][/\ \A pid \in Pids :
             (ReleaseSpace(pid) /\ pid \in DOMAIN vm.page_tables)
             => \A key \in TlbEntries(vm') : key[1] # pid
       /\ (last'.op = "access_page" /\ last'.victim # <<>>)
             => last'.victim \notin TlbEntries(vm')]_vars

----------------------------------------------------------------------------
(* Claims on the TLB *)

\* the place of the last occurrence of key in log
LastUse(log, key) == CHOOSE i \in 1..Len(log) : log[i] = key /\ \A j \in (i+1)..Len(log) : log[j] # key

\* the key of log whose last occurrence is the earliest
LruKey(log) == CHOOSE k \in Elems(log) : \A o \in Elems(log) : LastUse(log, k) <= LastUse(log, o)

\* C10: with capacity k and an empty TLB, the access that brings the (k+1)th
\* distinct key evicts, and reports as evicted, the least recently accessed
\* key: the first key when the k+1 keys were accessed once each in order, and
\* never a key re-accessed (HIT) after it; a following access of the first key
\* is then a MISS.
C10_TlbLruLaw ==
    [][\A key \in TlbKeys :
          (TlbAccess(key) /\ tlb_log.steady)
          => LET log == tlb_log.keys
                 k   == vm.tlb_capacity
             IN  /\ (key \notin Elems(log) /\ Cardinality(Elems(log)) = k)
                    => /\ ~last'.ok
                       /\ last'.victim = LruKey(log)
                       /\ ~OHas(vm'.tlb, LruKey(log))
                       /\ NoDup(log) => last'.victim = log[1]
                 /\ (Len(log) = k + 1 /\ NoDup(log) /\ key = log[1])
                    => ~last'.ok]_vars

\* the case of C10: capacity 3, the sequence (1,0),(2,1),(3,2),(4,0) has
\* evicted (1,0), and the following access to (1,0) was a MISS
C10_Witness ==
    /\ vm.tlb_capacity = 3
    /\ tlb_log = [keys |-> << <<1, 0>>, <<2, 1>>, <<3, 2>>, <<4, 0>>, <<1, 0>> >>,
                  steady |-> TRUE]
    /\ last.op = "tlb_access" /\ ~last.ok /\ last.victim = <<2, 1>>
    /\ vm.tlb_misses = 5

RECURSIVE Recency(_)
\* the distinct keys of log, least recently used first
Recency(log) ==
    IF log = <<>> THEN <<>>
    ELSE Touched(Recency(SubSeq(log, 1, Len(log) - 1)), log[Len(log)])

\* the last n elements of s
Suffix(s, n) == SubSeq(s, Len(s) - n + 1, Len(s))

\* the keys of the TLB, in its order
TlbOrder(v) == [i \in 1..Len(v.tlb) |-> v.tlb[i][1]]

\* C20: after any sequence of tlb_access, set_tlb_capacity and reset_tlb
\* calls the capacity is at least 1 and the TLB holds no more entries than
\* the capacity; set_tlb_capacity(n) with n below the current size removes
\* exactly the least recently used entries and keeps the most recently used
\* ones in their order.
C20_TlbCapacityBound ==
    [][/\ vm'.tlb_capacity >= 1
       /\ Len(vm'.tlb) <= vm'.tlb_capacity
       /\ \A capacity \in TlbCaps :
             SetTlbCapacity(capacity)
             => /\ vm'.tlb_capacity = Max(1, capacity)
                /\ Len(vm'.tlb) = IF Len(vm.tlb) > Max(1, capacity)
                                  THEN Max(1, capacity) ELSE Len(vm.tlb)
                /\ vm'.tlb = Suffix(vm.tlb, Len(vm'.tlb))
                /\ TlbOrder(vm') = Suffix(Recency(tlb_log.keys), Len(vm'.tlb))]_vars

\* the case of C20: the capacity was set to 2 with (1,0), (2,1), (1,0), (3,2)
\* accessed; (2,1), the least recently used, is gone
C20_Witness ==
    /\ last.op = "set_tlb_capacity"
    /\ vm.tlb_capacity = 2
    /\ tlb_log.keys = << <<1, 0>>, <<2, 1>>, <<1, 0>>, <<3, 2>> >>
    /\ vm.tlb_hits = 1 /\ vm.tlb_misses = 3
    /\ TlbOrder(vm) = << <<1, 0>>, <<3, 2>> >>

\* C21: tlb_access on a present key reports HIT, increments only the hit
\* counter, makes the key the most recently used and changes no membership;
\* on an absent key it reports MISS, increments only the miss counter and the
\* key is present as the most recently used when the call returns; hits plus
\* misses is the number of tlb_access calls since the last reset_tlb.
C21_TlbAccessCounters ==
    [][/\ vm'.tlb_hits + vm'.tlb_misses = Len(tlb_log'.keys)
       /\ \A key \in TlbKeys :
             TlbAccess(key)
             => /\ TlbOrder(vm') # <<>>
                /\ TlbOrder(vm')[Len(vm'.tlb)] = key
                /\ IF OHas(vm.tlb, key)
                   THEN /\ last'.ok
                        /\ vm'.tlb_hits = vm.tlb_hits + 1
                        /\ vm'.tlb_misses = vm.tlb_misses
                        /\ OKeys(vm'.tlb) = OKeys(vm.tlb)
                        /\ Len(vm'.tlb) = Len(vm.tlb)
                   ELSE /\ ~last'.ok
                        /\ vm'.tlb_misses = vm.tlb_misses + 1
                        /\ vm'.tlb_hits = vm.tlb_hits]_vars

\* the case of C21: a HIT on a key that was not the most recently used, after
\* other hits and misses
C21_Witness ==
    /\ last.op = "tlb_access" /\ last.ok
    /\ tlb_log.keys = << <<1, 0>>, <<2, 1>>, <<2, 1>>, <<3, 2>>, <<1, 0>> >>
    /\ vm.tlb_hits = 2 /\ vm.tlb_misses = 3
    /\ TlbOrder(vm) = << <<2, 1>>, <<3, 2>>, <<1, 0>> >>

----------------------------------------------------------------------------
(* The whole system: the entry points of OperatingSystem and the scheduler  *)
(* calls the command line makes                                             *)

State ==
    [mm |-> mm, vm |-> vm, sched |-> sched, procs |-> procs,
     next_pid |-> next_pid, process_archive |-> process_archive]

Becomes(S) ==
    /\ mm' = S.mm
    /\ vm' = S.vm
    /\ sched' = S.sched
    /\ procs' = S.procs
    /\ next_pid' = S.next_pid
    /\ process_archive' = S.process_archive

\* Process._generate_io_profile: one I/O burst between two CPU bursts
IoProfile(cpu_profile) == [i \in 1..(Len(cpu_profile) - 1) |-> 1]

\* dispatches made so far
Dispatched == SumOver([p \in DOMAIN procs |-> procs[p].cpu_time], DOMAIN procs) \div Quantum

\* the order in which the processes of S stand for the processor: the ready
\* queue, then the process that holds the slot and is still RUNNING
RunOrder(S) ==
    LET rp == S.sched.running_process
    IN  S.sched.ready_queue \o
          (IF rp # None /\ S.procs[rp].state = "RUNNING" THEN <<rp>> ELSE <<>>)

\* a dispatch run begins in S: after a creation, a termination, an interrupt
\* or a change of policy
RunStart(S) == [base |-> RunOrder(S), log |-> <<>>]

\* a dispatch call returned pid and left S
RunAfter(S, pid) ==
    IF S.sched.policy # "RR" THEN RunStart(S)
    ELSE IF pid = None THEN rr
    ELSE [rr EXCEPT !.log = Append(@, pid)]

CreateProcessCall(priority, memory_size, cpu_profile) ==
    /\ \E r \in {create_process(State, priority, memory_size, cpu_profile,
                               IoProfile(cpu_profile))} :
         /\ Becomes(r.S)
         /\ rr' = RunStart(r.S)
         /\ last' = Call("create_process", r.pid # None, r.pid, None, None, FALSE, <<>>, FALSE)
    /\ UNCHANGED <<alloc_log, use_order, since_fault, tlb_log>>

CreateProcess(priority, memory_size, cpu_profile) ==
    /\ next_pid <= MaxPid
    /\ CreateProcessCall(priority, memory_size, cpu_profile)

KillProcess(pid) ==
    /\ \E r \in {kill_process(State, pid)} :
         /\ Becomes(r.S)
         /\ rr' = RunStart(r.S)
         /\ last' = Call("kill_process", r.ok, pid, None, None, FALSE, <<>>, FALSE)
    /\ UNCHANGED <<alloc_log, use_order, since_fault, tlb_log>>

RunSchedulerCycleCall(page, io) ==
    /\ \E r \in {run_scheduler_cycle(State, page, io)} :
         /\ r.drawn
         /\ Becomes(r.S)
         /\ rr' = RunAfter(r.S, r.pid)
         /\ last' = Call("run_scheduler_cycle", r.pid # None, r.pid, page, None, io, <<>>, r.exc)
    /\ UNCHANGED <<alloc_log, use_order, since_fault, tlb_log>>

RunSchedulerCycle(page, io) ==
    /\ Dispatched < MaxDispatch
    /\ RunSchedulerCycleCall(page, io)

TriggerIrq(device_name, cpu_profile, page, io) ==
    /\ next_pid <= MaxPid
    /\ Dispatched < MaxDispatch
    /\ \E r \in {trigger_irq(State, device_name, cpu_profile,
                            IoProfile(cpu_profile), page, io)} :
         /\ r.drawn
         /\ Becomes(r.S)
         /\ rr' = RunStart(r.S)
         /\ last' = Call("trigger_irq", r.ok, r.irq, page, r.served, io, <<>>, r.exc)
    /\ UNCHANGED <<alloc_log, use_order, since_fault, tlb_log>>

SetPolicy(policy) ==
    /\ \E r \in {set_policy(State, policy)} :
         /\ Becomes(r.S)
         /\ rr' = RunStart(r.S)
         /\ last' = Call("set_policy", r.ok, None, None, None, FALSE, <<>>, FALSE)
    /\ UNCHANGED <<alloc_log, use_order, since_fault, tlb_log>>

ScheduleNextCall ==
    /\ \E r \in {schedule_next(State)} :
         /\ Becomes(r.S)
         /\ rr' = RunAfter(r.S, r.pid)
         /\ last' = Call("schedule_next", r.pid # None, r.pid, None, None, FALSE, <<>>, FALSE)
    /\ UNCHANGED <<alloc_log, use_order, since_fault, tlb_log>>

ScheduleNext ==
    /\ Dispatched < MaxDispatch
    /\ ScheduleNextCall

Next ==
    \/ \E priority \in Priorities, memory_size \in CreateSizes, cpu_profile \in CpuProfiles :
          CreateProcess(priority, memory_size, cpu_profile)
    \/ \E pid \in 1..MaxPid : KillProcess(pid)
    \/ \E page \in PageArgs, io \in BOOLEAN : RunSchedulerCycle(page, io)
    \/ \E device_name \in DeviceArgs, cpu_profile \in CpuProfiles,
          page \in PageArgs, io \in BOOLEAN :
          TriggerIrq(device_name, cpu_profile, page, io)
    \/ \E policy \in PolicyArgs : SetPolicy(policy)
    \/ ScheduleNext

Spec == Init /\ [][Next]_vars

----------------------------------------------------------------------------
(* Claims on the whole system *)

\* C3: a create_process call that fails leaves the allocator, the virtual
\* memory manager, the scheduler and the pid counter exactly as they were.
C3_FailedCreateChangesNothing ==
    [][\A priority \in Priorities, memory_size \in CreateSizes, cpu_profile \in CpuProfiles :
          (CreateProcess(priority, memory_size, cpu_profile) /\ ~last'.ok)
          => /\ mm' = mm
             /\ vm' = vm
             /\ sched' = sched
             /\ next_pid' = next_pid]_vars

\* the case of C3: a creation was refused while processes were live
C3_Witness ==
    /\ last.op = "create_process" /\ ~last.ok
    /\ sched.processes # {}
    /\ mm.available_memory < mm.total_memory

\* the processes in the ready queue, as many times as they are queued
Queued(pid) == Cardinality({i \in 1..Len(sched.ready_queue) : sched.ready_queue[i] = pid})

\* C4: after every completed operation each live process appears at most once
\* in the ready queue and is never both in the ready queue and in the running
\* slot; a process terminated by kill_process is in neither the ready queue,
\* the running slot nor the live table, and is in the archive.
C4_QueueSlotExclusive ==
    /\ \A pid \in sched.processes :
          /\ Queued(pid) <= 1
          /\ ~(Queued(pid) = 1 /\ sched.running_process = pid)
    /\ \A pid \in DOMAIN procs :
          procs[pid].state = "TERMINATED"
          => /\ Queued(pid) = 0
             /\ sched.running_process # pid
             /\ pid \notin sched.processes
             /\ pid \in process_archive
    /\ process_archive \cap sched.processes = {}

\* the case of C4: an interrupt was served while a process held the running
\* slot; its IRQ process is terminated and archived, and the interrupted
\* process is back in the ready queue
C4_Witness ==
    /\ last.op = "trigger_irq" /\ last.ok
    /\ last.pid \in process_archive /\ procs[last.pid].state = "TERMINATED"
    /\ procs[last.pid].cpu_time = Quantum
    /\ \E pid \in sched.processes :
          /\ procs[pid].state_flow = <<"NEW", "READY", "RUNNING", "WAITING", "READY">>
          /\ sched.ready_queue = <<pid>>

\* s is a prefix of t
IsPrefix(s, t) == Len(s) <= Len(t) /\ SubSeq(t, 1, Len(s)) = s

\* C12: after a successful kill_process(pid), pid is absent from the live
\* table, the ready queue and the running slot, it has no page table, every
\* frame its pages occupied is in the free list, the allocator ledger holds no
\* entry of the process, and get_process_history(pid) still returns the events
\* recorded for it.
C12_TerminationCleanup ==
    [][\A pid \in 1..MaxPid :
          (KillProcess(pid) /\ last'.ok)
          => /\ pid \notin sched'.processes
             /\ pid \notin Elems(sched'.ready_queue)
             /\ sched'.running_process # pid
             /\ pid \notin DOMAIN vm'.page_tables
             /\ pid \in DOMAIN vm.page_tables
                => \A page \in OKeys(vm.page_tables[pid].mapping) :
                      OVal(vm.page_tables[pid].mapping, page) \in Elems(vm'.free_frames)
             /\ procs[pid].memory_address \notin DOMAIN mm'.allocated_blocks
             /\ \A a \in DOMAIN mm'.allocated_blocks : mm'.allocated_blocks[a].pid # pid
             /\ find_process(State', pid) = pid
             /\ procs[pid].history # <<>>
             /\ IsPrefix(procs[pid].history, get_process_history(State', pid))]_vars

\* the case of C12: a process that was dispatched and touched a page is
\* killed while another process is live
C12_Witness ==
    /\ last.op = "kill_process" /\ last.ok
    /\ sched.processes # {}
    /\ procs[last.pid].cpu_time > 0
    /\ Len(vm.free_frames) = FrameTotal
    /\ vm.page_faults > 0
    /\ last.pid \notin DOMAIN vm.page_tables

\* pid was given to no process before this step and is greater than every
\* pid given so far
FreshPid(pid) ==
    /\ pid \notin DOMAIN procs
    /\ \A q \in DOMAIN procs : q < pid
    /\ pid \notin process_archive \cup sched.processes

\* C14: pids are unique and strictly increasing in creation order: the pid of
\* every process created, by create_process or as the transient process of
\* trigger_irq, was never given before, live or archived, and exceeds them all.
C14_PidsNeverReused ==
    [][/\ \A priority \in Priorities, memory_size \in CreateSizes, cpu_profile \in CpuProfiles :
             (CreateProcess(priority, memory_size, cpu_profile) /\ last'.ok)
             => FreshPid(last'.pid)
       /\ \A device_name \in DeviceArgs, cpu_profile \in CpuProfiles,
             page \in PageArgs, io \in BOOLEAN :
             (TriggerIrq(device_name, cpu_profile, page, io) /\ last'.pid # None)
             => FreshPid(last'.pid)]_vars

\* the case of C14: a process is created after the transient process of an
\* interrupt was terminated
C14_Witness ==
    /\ last.op = "create_process" /\ last.ok /\ last.pid = 2
    /\ 1 \in process_archive
    /\ procs[1].state = "TERMINATED"
    /\ procs[1].priority = IrqPriority
    /\ 2 \in sched.processes

\* queue is in ascending order of key
Ascending(queue, key) ==
    \A i, j \in 1..Len(queue) : i < j => key[queue[i]] <= key[queue[j]]

\* C17: set_policy(name) returns true and makes name the active policy only
\* for RR, FIFO, SJF and PRIORITY, and the ready queue is then ordered by the
\* new policy at once (by priority value under PRIORITY, by next CPU burst
\* under SJF, as it stood under RR and FIFO); for any other name it returns
\* false and leaves the policy and the order of the ready queue unchanged.
C17_SetPolicy ==
    [][\A policy \in PolicyArgs :
          SetPolicy(policy)
          => IF policy \in {"RR", "FIFO", "SJF", "PRIORITY"}
             THEN /\ last'.ok
                  /\ sched'.policy = policy
                  /\ Len(sched'.ready_queue) = Len(sched.ready_queue)
                  /\ Elems(sched'.ready_queue) = Elems(sched.ready_queue)
                  /\ policy = "PRIORITY"
                     => Ascending(sched'.ready_queue,
                                  [p \in DOMAIN procs |-> procs[p].priority])
                  /\ policy = "SJF"
                     => Ascending(sched'.ready_queue,
                                  [p \in DOMAIN procs |-> procs[p].cpu_profile[1]])
                  /\ policy \in {"RR", "FIFO"}
                     => sched'.ready_queue = sched.ready_queue
             ELSE /\ ~last'.ok
                  /\ sched'.policy = sched.policy
                  /\ sched'.ready_queue = sched.ready_queue]_vars

\* the case of C17: the change to PRIORITY moved the process created second,
\* of lower priority value, ahead of the first
C17_Witness ==
    /\ last.op = "set_policy" /\ last.ok
    /\ sched.policy = "PRIORITY"
    /\ sched.ready_queue = <<2, 1>>
    /\ procs[2].priority < procs[1].priority
    /\ Dispatched = 0

\* C18: under PRIORITY, when a process holds the slot and is RUNNING,
\* the process schedule_next returns has the lowest priority value among that
\* process and all the processes that were in the ready queue.
C18_PriorityDispatch ==
    [][(/\ ScheduleNext
        /\ sched.policy = "PRIORITY"
        /\ sched.running_process # None
        /\ procs[sched.running_process].state = "RUNNING"
        /\ last'.ok)
       => \A p \in Elems(sched.ready_queue) \cup {sched.running_process} :
             procs[last'.pid].priority <= procs[p].priority]_vars

\* C22: trigger_irq for a device name that is not in the device registry
\* returns a failure and does not create, dispatch or terminate any process.
C22_UnknownDeviceRejected ==
    [][\A device_name \in DeviceArgs, cpu_profile \in CpuProfiles,
          page \in PageArgs, io \in BOOLEAN :
          (TriggerIrq(device_name, cpu_profile, page, io) /\ device_name \notin Devices)
          => /\ ~last'.ok
             /\ next_pid' = next_pid
             /\ procs' = procs
             /\ process_archive' = process_archive]_vars

\* the transitions of the process state machine
Transitions ==
    {<<"NEW", "READY">>, <<"READY", "RUNNING">>, <<"RUNNING", "READY">>,
     <<"RUNNING", "WAITING">>, <<"WAITING", "READY">>}
      \cup {<<s, "TERMINATED">> : s \in {"NEW", "READY", "RUNNING", "WAITING"}}

\* C23: the transition log of every process driven through create_process,
\* run_scheduler_cycle, schedule_next, trigger_irq and kill_process starts
\* with NEW then READY, and every consecutive pair of logged states is a
\* transition of the state machine.
C23_LegalTransitions ==
    \A pid \in DOMAIN procs :
       LET flow == procs[pid].state_flow
       IN  /\ Len(flow) >= 2
           /\ flow[1] = "NEW" /\ flow[2] = "READY"
           /\ \A i \in 1..(Len(flow) - 1) : <<flow[i], flow[i + 1]>> \in Transitions

\* the case of C23: a process was dispatched, blocked, made ready again and
\* killed, and an interrupt was served by a transient process
C23_Witness ==
    /\ \E pid \in DOMAIN procs :
          /\ procs[pid].priority \in Priorities
          /\ procs[pid].state_flow =
                <<"NEW", "READY", "RUNNING", "WAITING", "READY", "TERMINATED">>
    /\ \E pid \in DOMAIN procs :
          /\ procs[pid].priority = IrqPriority
          /\ procs[pid].state_flow \in
                {<<"NEW", "READY", "RUNNING", "READY", "TERMINATED">>,
                 <<"NEW", "READY", "RUNNING", "WAITING", "READY", "TERMINATED">>}

\* the processes that stand in the ready queue or hold the running slot
Standing(s) == Elems(s.ready_queue) \cup ({s.running_process} \ {None})

\* C25: schedule_next returns None exactly when the ready queue and the
\* running slot are both empty; a process it returns is RUNNING, holds the
\* slot and is not in the ready queue; and no live process that stood in the
\* queue or the slot is in neither after the call.
C25_ScheduleNextContract ==
    [][ScheduleNext
       => /\ (last'.pid = None) <=> (Standing(sched) = {})
          /\ last'.pid # None
             => /\ procs'[last'.pid].state = "RUNNING"
                /\ sched'.running_process = last'.pid
                /\ last'.pid \notin Elems(sched'.ready_queue)
          /\ Standing(sched) \cap sched.processes \subseteq Standing(sched')]_vars

\* the pid dispatched by the call c: the one schedule_next or
\* run_scheduler_cycle returned, or the one the service cycle of trigger_irq
\* dispatched
DispatchedBy(c) ==
    IF c.op \in {"schedule_next", "run_scheduler_cycle"} THEN c.pid
    ELSE IF c.op = "trigger_irq" THEN c.frame
    ELSE None

\* the number of times RUNNING was recorded in flow
Runs(flow) == Cardinality({i \in DOMAIN flow : flow[i] = "RUNNING"})

\* C26: every dispatch, by schedule_next directly or through
\* run_scheduler_cycle or trigger_irq, adds exactly quantum to the processor
\* time of the dispatched process and changes that of no other process, so
\* cpu_time is quantum times the number of dispatches of the process and
\* never decreases.
C26_QuantumAccounting ==
    [][\A pid \in DOMAIN procs' :
          /\ procs'[pid].cpu_time =
                (IF pid \in DOMAIN procs THEN procs[pid].cpu_time ELSE 0)
                + (IF pid = DispatchedBy(last') THEN sched.quantum ELSE 0)
          /\ procs'[pid].cpu_time = sched.quantum * Runs(procs'[pid].state_flow)]_vars

\* the case of C26: a process was dispatched twice while another process, not
\* dispatched, was live
C26_Witness ==
    /\ DispatchedBy(last) # None
    /\ procs[DispatchedBy(last)].cpu_time = 2 * sched.quantum
    /\ \E pid \in sched.processes : procs[pid].cpu_time = 0

\* C30: in a successful trigger_irq the process the service cycle dispatches
\* is the transient IRQ process created for that interrupt, whatever the
\* policy and the priorities and burst profiles of the other ready processes.
C30_IrqServedFirst ==
    [][(last'.op = "trigger_irq" /\ last'.ok) => last'.frame = last'.pid]_vars

\* C33: after any sequence of create_process and kill_process calls with
\* sizes from 0 up, available memory plus the sum of memory_size over the
\* live processes equals total memory, and every live process has its own
\* ledger entry at its memory_address, recording its pid and its size.
C33_MemoryAccounting ==
    /\ mm.available_memory
          + SumOver([pid \in sched.processes |-> procs[pid].memory_size], sched.processes)
       = mm.total_memory
    /\ \A pid \in sched.processes :
          /\ procs[pid].memory_address \in DOMAIN mm.allocated_blocks
          /\ mm.allocated_blocks[procs[pid].memory_address]
                = [size |-> procs[pid].memory_size, pid |-> pid]

\* C37: no starvation: under every policy, with a fixed set of live processes
\* and run_scheduler_cycle repeated, every live process is eventually
\* dispatched.  In finite form: schedule_next reads only the policy, the
\* slot, the queue as _sort_by_policy orders it, and the priorities and burst
\* profiles, which never change; so no cycle may bring these back to what
\* they were before it while a process other than the dispatched one waits,
\* for every later cycle would then dispatch the same process again.
C37_NoStarvation ==
    [][(/\ last'.op = "run_scheduler_cycle"
        /\ last'.pid # None
        /\ sort_by_policy(State').sched = sort_by_policy(State).sched)
       => Elems(sched.ready_queue) = {last'.pid}]_vars

\* C39: a trigger_irq that fails because the IRQ process cannot be admitted
\* changes nothing: the state of every process, the ready queue and the
\* running slot are as before the call, also when a RUNNING process holds the
\* slot, and that process is dispatched or re-queued by the next
\* schedule_next.
C39_FailedIrqChangesNothing ==
    [][(last'.op = "trigger_irq" /\ ~last'.ok)
       => /\ \A pid \in DOMAIN procs : procs'[pid].state = procs[pid].state
          /\ sched'.ready_queue = sched.ready_queue
          /\ sched'.running_process = sched.running_process
          /\ sched.running_process # None
             => \/ schedule_next(State').pid = sched.running_process
                \/ sched.running_process
                      \in Elems(schedule_next(State').S.sched.ready_queue)]_vars

\* C40: when trigger_irq returns, having succeeded or failed, the IRQ process
\* it created is not in the live table or the ready queue, its page table
\* and frames are released, available memory is what it was before the call,
\* and the set of live processes is the same as before the call.
C40_IrqProcessGone ==
    [][last'.op = "trigger_irq"
       => /\ sched'.processes = sched.processes
          /\ mm'.available_memory = mm.available_memory
          /\ Elems(sched'.ready_queue) \subseteq sched.processes
          /\ DOMAIN vm'.page_tables = DOMAIN vm.page_tables
          /\ last'.pid # None
             => /\ last'.pid \notin sched'.processes
                /\ last'.pid \notin Elems(sched'.ready_queue)
                /\ sched'.running_process # last'.pid
                /\ last'.pid \in process_archive'
                /\ \A f \in DOMAIN vm'.frame_table : vm'.frame_table[f][1] # last'.pid
                /\ \A a \in DOMAIN mm'.allocated_blocks :
                      mm'.allocated_blocks[a].pid # last'.pid]_vars

\* the case of C40: with a process live, an interrupt was served by its IRQ
\* process, which took a frame that is free again
C40_Witness ==
    /\ last.op = "trigger_irq" /\ last.ok
    /\ last.frame = last.pid
    /\ sched.processes # {}
    /\ vm.free_frames = <<1, 0>>

----------------------------------------------------------------------------
(* The system at its real size, as OperatingSystem.__init__ builds it      *)

\* MemoryManager(total_memory=1024)
OsTotalMemory == 1024
\* VirtualMemoryManager(total_frames=64, page_size=16)
OsTotalFrames == 64
OsPageSize == 16

InitOs ==
    /\ mm = MemoryManager(OsTotalMemory)
    /\ vm = VirtualMemoryManager(OsTotalFrames, OsPageSize)
    /\ sched = CPUScheduler(Quantum)
    /\ procs = EmptyDict
    /\ next_pid = 1
    /\ process_archive = {}
    /\ last = NoCall
    /\ alloc_log = <<>>
    /\ use_order = <<>>
    /\ since_fault = EmptyDict
    /\ tlb_log = [keys |-> <<>>, steady |-> TRUE]
    /\ rr = [base |-> <<>>, log |-> <<>>]

\* memory sizes asked for at this size
OsSizes == {100, 256, 900}

NextOs ==
    \/ \E priority \in Priorities, memory_size \in OsSizes, cpu_profile \in CpuProfiles :
          CreateProcess(priority, memory_size, cpu_profile)
    \/ \E pid \in 1..MaxPid : KillProcess(pid)
    \/ \E page \in PageArgs, io \in BOOLEAN : RunSchedulerCycle(page, io)

SpecOs == InitOs /\ [][NextOs]_vars

\* the state right after the first process, of priority 5 and 256 KB, was created
AfterFirst256 ==
    /\ last.op = "create_process" /\ last.ok /\ last.pid = 1
    /\ next_pid = 2
    /\ procs[1].priority = 5 /\ procs[1].memory_size = 256

\* C13: on a fresh system with total memory 1024 and page size 16,
\* create_process(5, 256) succeeds with physical address 0, a virtual space of
\* 16 pages and available memory 768; a following create_process(5, 900) fails
\* and available memory stays 768.
C13_Scenario ==
    [][\A cpu_profile \in CpuProfiles :
          /\ (last.op = "init" /\ CreateProcess(5, 256, cpu_profile))
             => /\ last'.ok
                /\ procs'[last'.pid].memory_address = 0
                /\ vm'.page_tables[last'.pid].pages = 16
                /\ mm'.available_memory = 768
          /\ (AfterFirst256 /\ CreateProcess(5, 900, cpu_profile))
             => /\ ~last'.ok
                /\ next_pid' = next_pid   \* refused at the admission test
                /\ mm.available_memory = 768
                /\ mm'.available_memory = 768]_vars

\* the case of C13: the second creation was refused after the first succeeded
C13_Witness ==
    /\ last.op = "create_process" /\ ~last.ok
    /\ next_pid = 2
    /\ procs[1].priority = 5 /\ procs[1].memory_size = 256
    /\ procs[1].memory_address = 0
    /\ vm.page_tables[1].pages = 16
    /\ mm.available_memory = 768
    /\ sched.ready_queue = <<1>>

----------------------------------------------------------------------------
(* The scheduler under a longer run: processes of one page each are        *)
(* created, dispatched by schedule_next and run_scheduler_cycle, killed,    *)
(* and the policy is changed                                                *)

\* processes created in this run
MaxProcs == 3
\* dispatches made in this run
MaxRounds == 4

\* priority, memory size and CPU profile of the processes created: alike, so
\* that only the order of arrival tells them apart; each has one page, and
\* three of them fit in memory
Workloads == {<<5, 5, <<2, 3>>>>}

Admit(priority, memory_size, cpu_profile) ==
    /\ next_pid <= MaxProcs
    /\ CreateProcessCall(priority, memory_size, cpu_profile)

Reschedule ==
    /\ Dispatched < MaxRounds
    /\ ScheduleNextCall

Cycle(page, io) ==
    /\ Dispatched < MaxRounds
    /\ RunSchedulerCycleCall(page, io)

NextSched ==
    \/ \E w \in Workloads : Admit(w[1], w[2], w[3])
    \/ Reschedule
    \/ \E page \in PageArgs, io \in BOOLEAN : Cycle(page, io)
    \/ \E pid \in 1..MaxProcs : KillProcess(pid)
    \/ \E policy \in PolicyArgs : SetPolicy(policy)

SpecSched == Init /\ [][NextSched]_vars

\* C11: with policy RR and the processes standing in the order p1..pn, the
\* calls to schedule_next and run_scheduler_cycle made since then, with no
\* creation, termination, interrupt or change of policy in between, have
\* dispatched p1, p2, ..., pn, p1, ... in cyclic order.
C11_RoundRobinOrder ==
    sched.policy = "RR"
    => \A i \in 1..Len(rr.log) :
          /\ rr.base # <<>>
          /\ rr.log[i] = rr.base[((i - 1) % Len(rr.base)) + 1]

\* the case of C11: three processes added in order, and a fourth dispatch
\* that comes back to the first; both kinds of dispatch call were made
C11_Witness ==
    /\ sched.policy = "RR"
    /\ rr.base = <<1, 2, 3>>
    /\ rr.log = <<1, 2, 3, 1>>
    /\ last.op = "schedule_next"
    /\ \E pid \in DOMAIN procs : \E i \in 1..Len(procs[pid].history) :
          procs[pid].history[i] = "CPU"

\* the processes of queue have the same sort key under the policy
EqualKeys(queue, P, policy) ==
    \A i, j \in 1..Len(queue) :
       IF policy = "PRIORITY" THEN P[queue[i]].priority = P[queue[j]].priority
       ELSE next_burst(P[queue[i]]) = next_burst(P[queue[j]])

\* C28: the re-ordering is stable: under PRIORITY and SJF, with the
\* processes all of the same sort key, each dispatch of run_scheduler_cycle
\* or schedule_next takes the process at the head of the standing order and
\* puts it at its end, the same process round robin dispatches, so that
\* repeated cycles dispatch the processes in the cyclic order of round robin.
C28_StableReordering ==
    [][(/\ sched.policy \in {"PRIORITY", "SJF"}
        /\ last'.op \in {"schedule_next", "run_scheduler_cycle"}
        /\ RunOrder(State) # <<>>
        /\ EqualKeys(RunOrder(State), procs, sched.policy))
       => /\ last'.pid = Head(RunOrder(State))
          /\ RunOrder(State') = Tail(RunOrder(State)) \o <<Head(RunOrder(State))>>
          /\ last'.pid = schedule_next([State EXCEPT !.sched.policy = "RR"]).pid]_vars

\* the case of C28: under PRIORITY three processes of the same priority were
\* dispatched in turn and the fourth dispatch came back to the first
C28_Witness ==
    /\ sched.policy = "PRIORITY"
    /\ last.op = "run_scheduler_cycle" /\ last.pid = 1
    /\ sched.ready_queue = <<2, 3, 1>>
    /\ procs[1].cpu_time = 2 * sched.quantum
    /\ procs[2].cpu_time = sched.quantum
    /\ procs[3].cpu_time = sched.quantum
    /\ procs[1].priority = procs[2].priority /\ procs[2].priority = procs[3].priority

----------------------------------------------------------------------------
(* Termination from both ends: kill_process of the orchestrator and         *)
(* remove_process called on the scheduler itself                            *)

RemoveProcess(pid) ==
    /\ \E r \in {remove_process(State, pid)} :
         /\ Becomes(r.S)
         /\ rr' = RunStart(r.S)
         /\ last' = Call("remove_process", r.ok, pid, None, None, FALSE, <<>>, FALSE)
    /\ UNCHANGED <<alloc_log, use_order, since_fault, tlb_log>>

NextKill ==
    \/ \E priority \in Priorities, memory_size \in CreateSizes, cpu_profile \in CpuProfiles :
          CreateProcess(priority, memory_size, cpu_profile)
    \/ \E pid \in 1..MaxPid : KillProcess(pid)
    \/ \E pid \in 1..MaxPid : RemoveProcess(pid)
    \/ \E page \in PageArgs, io \in BOOLEAN : RunSchedulerCycle(page, io)
    \/ ScheduleNext

SpecKill == Init /\ [][NextKill]_vars

\* C19: remove_process(pid) and kill_process(pid) for a pid that is not in the
\* live table, never created or already killed, return false and leave the
\* live table, the ready queue, the running slot, the archive, the allocator
\* and the virtual memory unchanged; a second kill of a pid frees nothing.
C19_UnknownPidNoOp ==
    [][\A pid \in 1..MaxPid :
          ((KillProcess(pid) \/ RemoveProcess(pid)) /\ pid \notin sched.processes)
          => /\ ~last'.ok
             /\ sched' = sched
             /\ process_archive' = process_archive
             /\ mm' = mm
             /\ vm' = vm
             /\ procs' = procs]_vars

\* the case of C19: a pid already killed is killed again while its memory is
\* free and another process is live
C19_Witness ==
    /\ last.op = "kill_process" /\ ~last.ok
    /\ last.pid \in process_archive
    /\ sched.processes # {}
    /\ \A a \in DOMAIN mm.allocated_blocks : mm.allocated_blocks[a].pid # last.pid
    /\ mm.available_memory < mm.total_memory

----------------------------------------------------------------------------
(* Terminated processes: every operation of the system, remove_process
   included, on one kind of process and one device *)

NextTerm ==
    \/ \E priority \in Priorities, memory_size \in CreateSizes :
          CreateProcess(priority, memory_size, <<2, 3>>)
    \/ \E pid \in 1..MaxPid : KillProcess(pid)
    \/ \E pid \in 1..MaxPid : RemoveProcess(pid)
    \/ \E page \in PageArgs, io \in BOOLEAN : RunSchedulerCycle(page, io)
    \/ \E io \in BOOLEAN : TriggerIrq("teclado", <<2, 3>>, 0, io)
    \/ \E policy \in PolicyArgs : SetPolicy(policy)
    \/ ScheduleNext

SpecTerm == Init /\ [][NextTerm]_vars

\* C24: once a process is TERMINATED, by kill_process or remove_process, no
\* later operation dispatches it, changes its state or appends a record to
\* its transition log: it stays out of the ready queue and of the running
\* slot and its processor time stays as it is.
C24_TerminatedIsTerminal ==
    [][\A pid \in DOMAIN procs :
          procs[pid].state = "TERMINATED"
          => /\ procs'[pid].state = "TERMINATED"
             /\ procs'[pid].state_flow = procs[pid].state_flow
             /\ procs'[pid].cpu_time = procs[pid].cpu_time
             /\ sched'.running_process # pid
             /\ pid \notin Elems(sched'.ready_queue)]_vars

\* the case of C24: a process that had run was terminated by remove_process
\* and an interrupt was served after that
C24_Witness ==
    /\ \E pid \in DOMAIN procs :
          /\ procs[pid].state = "TERMINATED"
          /\ pid \notin process_archive
          /\ procs[pid].cpu_time > 0
          /\ pid # last.pid
    /\ last.op = "trigger_irq" /\ last.ok

----------------------------------------------------------------------------
(* The scheduler alone: add_process is handed process objects directly, of
   the default priority (process.py:17), so a process whose burst profile is
   empty, the case scheduler.py:28 provides for, can stand in the queue *)

\* the burst profiles of the process objects handed to add_process: those the
\* generator of process.py:48-50 draws and the empty one
BurstProfiles == CpuProfiles \cup {<<>>}

AddProcess(priority, cpu_profile) ==
    /\ next_pid <= MaxProcs
    /\ \E S \in {add_process(
                   [State EXCEPT
                      !.next_pid = @ + 1,
                      !.procs = Put(@, next_pid,
                                    [Process(priority, 0, cpu_profile, IoProfile(cpu_profile))
                                       EXCEPT !.state_flow = <<"NEW">>])],
                   next_pid)} :
         /\ Becomes(S)
         /\ rr' = RunStart(S)
         /\ last' = Call("add_process", TRUE, next_pid, None, None, FALSE, <<>>, FALSE)
    /\ UNCHANGED <<alloc_log, use_order, since_fault, tlb_log>>

NextQueue ==
    \/ \E cpu_profile \in BurstProfiles : AddProcess(5, cpu_profile)
    \/ \E policy \in PolicyArgs : SetPolicy(policy)
    \/ \E pid \in 1..MaxProcs : RemoveProcess(pid)
    \/ ScheduleNext
    \/ \E io \in BOOLEAN : RunSchedulerCycle(0, io)

SpecQueue == Init /\ [][NextQueue]_vars

\* queue is in ascending order of first burst, the processes without bursts
\* after all the others
BurstOrder(queue, P) ==
    \A i, j \in 1..Len(queue) :
       i < j => /\ (P[queue[i]].cpu_profile # <<>> /\ P[queue[j]].cpu_profile # <<>>)
                   => P[queue[i]].cpu_profile[1] <= P[queue[j]].cpu_profile[1]
                /\ P[queue[i]].cpu_profile = <<>> => P[queue[j]].cpu_profile = <<>>

Twin(S) ==
    [S EXCEPT !.sched.policy = IF @ = "RR" THEN "FIFO"
                               ELSE IF @ = "FIFO" THEN "RR" ELSE @]

\* C29: FIFO and RR are observationally identical: from the same state, the
\* same add_process, schedule_next, remove_process or run_scheduler_cycle
\* call on a scheduler with the one policy and on a scheduler with the other
\* leaves the same ready queue, slot and processes and dispatches the same
\* process (a new process goes to the end of the queue under both, and FIFO
\* does not keep the running process on the processor).
C29_FifoIsRoundRobin ==
    [][sched.policy \in {"RR", "FIFO"}
       => /\ last'.op = "add_process"
             => sched'.ready_queue = Append(sched.ready_queue, last'.pid)
          /\ last'.op = "schedule_next"
             => schedule_next(Twin(State)) = [S |-> Twin(State'), pid |-> last'.pid]
          /\ last'.op = "remove_process"
             => remove_process(Twin(State), last'.pid) = [S |-> Twin(State'), ok |-> last'.ok]
          /\ last'.op = "run_scheduler_cycle"
             => /\ run_scheduler_cycle(Twin(State), last'.page, last'.fault).S = Twin(State')
                /\ run_scheduler_cycle(Twin(State), last'.page, last'.fault).pid = last'.pid]_vars

\* the case of C29: under FIFO, with two processes, schedule_next took the
\* processor from the first and gave it to the second
C29_Witness ==
    /\ sched.policy = "FIFO"
    /\ last.op = "schedule_next" /\ last.pid = 2
    /\ sched.running_process = 2
    /\ sched.ready_queue = <<1>>
    /\ procs[1].cpu_time = sched.quantum

----------------------------------------------------------------------------
(* The orchestrator alone: the operations of OperatingSystem, with no call
   made on the scheduler directly except set_policy *)

NextIdle ==
    \/ \E priority \in Priorities, memory_size \in CreateSizes, cpu_profile \in CpuProfiles :
          CreateProcess(priority, memory_size, cpu_profile)
    \/ \E pid \in 1..MaxPid : KillProcess(pid)
    \/ \E page \in PageArgs, io \in BOOLEAN : RunSchedulerCycle(page, io)
    \/ \E device_name \in DeviceArgs, cpu_profile \in CpuProfiles,
          page \in PageArgs, io \in BOOLEAN :
          TriggerIrq(device_name, cpu_profile, page, io)
    \/ \E policy \in PolicyArgs : SetPolicy(policy)

SpecIdle == Init /\ [][NextIdle]_vars

\* C32: with only create_process, kill_process, run_scheduler_cycle,
\* trigger_irq and set_policy used, after every completed operation the
\* running slot is empty, every live process is READY and stands exactly once
\* in the ready queue, and the ready queue holds live processes only.
C32_Quiescent ==
    /\ sched.running_process = None
    /\ \A pid \in sched.processes :
          /\ procs[pid].state = "READY"
          /\ Queued(pid) = 1
    /\ Elems(sched.ready_queue) \subseteq sched.processes

\* the case of C32: an interrupt was served while a process that had run and
\* waited for I/O was live
C32_Witness ==
    /\ last.op = "trigger_irq" /\ last.ok
    /\ \E pid \in sched.processes :
          /\ procs[pid].cpu_time > 0
          /\ \E i \in DOMAIN procs[pid].state_flow : procs[pid].state_flow[i] = "WAITING"

----------------------------------------------------------------------------
(* Creation undone by termination: processes of 5 KB, so that a third fits
   next to two live ones, of either priority, under every policy *)

NextTrip ==
    \/ \E priority \in Priorities, cpu_profile \in CpuProfiles :
          CreateProcess(priority, 5, cpu_profile)
    \/ \E pid \in 1..MaxPid : KillProcess(pid)
    \/ \E page \in PageArgs, io \in BOOLEAN : RunSchedulerCycle(page, io)
    \/ \E policy \in PolicyArgs : SetPolicy(policy)

SpecTrip == Init /\ [][NextTrip]_vars

\* S after create_process(priority, 5, cpu_profile) and, if it succeeded,
\* kill_process of the new pid
RoundTrip(S, priority, cpu_profile) ==
    LET c == create_process(S, priority, 5, cpu_profile, IoProfile(cpu_profile))
    IN  IF c.pid = None THEN S ELSE kill_process(c.S, c.pid).S

\* C38: a successful create_process immediately followed by kill_process of
\* the new pid restores available memory, the allocation ledger, the page
\* tables, the free-frame list, the live table, the ready queue (contents
\* and order) and the running slot to their values before the create.
C38_CreateKillRoundTrip ==
    \A priority \in Priorities, cpu_profile \in CpuProfiles :
       LET K == RoundTrip(State, priority, cpu_profile)
       IN  /\ K.mm.available_memory = mm.available_memory
           /\ K.mm.allocated_blocks = mm.allocated_blocks
           /\ K.vm.page_tables = vm.page_tables
           /\ K.vm.free_frames = vm.free_frames
           /\ K.sched.processes = sched.processes
           /\ K.sched.ready_queue = sched.ready_queue
           /\ K.sched.running_process = sched.running_process

----------------------------------------------------------------------------
(* Claims on the allocator *)

LedgerSum(m) ==
    SumOver([a \in DOMAIN m.allocated_blocks |-> m.allocated_blocks[a].size],
            DOMAIN m.allocated_blocks)

\* C1: after every allocate / deallocate call, successful or failing,
\* available_memory plus the sum of the sizes in the allocation ledger equals
\* total_memory.
C1_AllocatorConservation ==
    mm.available_memory + LedgerSum(mm) = mm.total_memory

\* the case of C1: memory was freed and allocated again, and a deallocate failed
C1_Witness ==
    /\ last.op = "deallocate" /\ ~last.ok
    /\ Len(alloc_log) >= 3
    /\ Cardinality(DOMAIN mm.allocated_blocks) = 1
    /\ mm.available_memory < mm.total_memory

\* C2: the addresses returned by successive successful allocate calls are
\* non-decreasing and no address is ever returned twice.
C2_AddressMonotonicity ==
    /\ \A i, j \in 1..Len(alloc_log) : i < j => alloc_log[i] <= alloc_log[j]
    /\ NoDup(alloc_log)

\* C16: allocate(size, owner) fails exactly when size exceeds the available
\* capacity, and then changes nothing; otherwise it records (size, owner) in
\* the ledger at the cursor, decreases the available capacity by size,
\* advances the cursor by size and returns the old cursor, however far the
\* cursor has advanced.
C16_AllocateContract ==
    [][\A size \in Sizes, pid \in Pids :
          Allocate(size, pid)
          => IF size > mm.available_memory
             THEN ~last'.ok /\ mm' = mm
             ELSE /\ last'.ok
                  /\ last'.frame = mm.next_address
                  /\ mm'.allocated_blocks =
                        Put(mm.allocated_blocks, mm.next_address,
                            [size |-> size, pid |-> pid])
                  /\ mm'.available_memory = mm.available_memory - size
                  /\ mm'.next_address = mm.next_address + size
                  /\ mm'.total_memory = mm.total_memory]_vars

\* the case of C16: after earlier blocks were freed, a block was handed out
\* that ends past total_memory
C16_Witness ==
    /\ last.op = "allocate" /\ last.ok
    /\ last.frame < mm.next_address
    /\ mm.next_address > mm.total_memory
    /\ Len(alloc_log) >= 3

\* C34: after a sequence of allocate / deallocate calls with positive sizes
\* (every address handed out so far is distinct and the block just allocated
\* has a positive size), every ledger entry ends at or before total_memory,
\* the spans of distinct ledger entries do not overlap, and
\* 0 <= available_memory <= total_memory.
C34_InsidePool ==
    [][\A size \in Sizes, pid \in Pids :
          (Allocate(size, pid) /\ size > 0 /\ NoDup(alloc_log'))
          => /\ \A a \in DOMAIN mm'.allocated_blocks :
                   a + mm'.allocated_blocks[a].size <= mm'.total_memory
             /\ \A a, b \in DOMAIN mm'.allocated_blocks :
                   a < b => a + mm'.allocated_blocks[a].size <= b
             /\ 0 <= mm'.available_memory
             /\ mm'.available_memory <= mm'.total_memory]_vars

====
